---- MODULE Spec2Model ----
(***************************************************************************)
(* go_proxy: a forwarding HTTP proxy (src/main.go).  Every inbound request *)
(* is handled by redirectHandler in a goroutine of its own: the request is *)
(* logged, rebuilt against the configured target server, sent upstream,    *)
(* the response is logged and relayed to the client.  The only state the   *)
(* handlers share is the three loggers (request, response, error).         *)
(*                                                                         *)
(* One handler is a sequence of steps; a step ends at each call of a       *)
(* shared logger (log.Logger serialises Printf calls), so the steps of     *)
(* concurrent handlers interleave at the granularity of one log line.      *)
(***************************************************************************)
EXTENDS Integers, Sequences, FiniteSets, TLC

\* ------------------------------------------------------------------ bounds

\* Connections of the server loop; a concurrent run handles two of them.
NumReq == 2
\* Header lines on the wire of a request of the header scenarios.
MaxHdrs == 2
\* Bytes of a request or response body of the body scenarios.
MaxBody == 2

Reqs == 1..NumReq

\* --------------------------------------------------------------- constants

\* net/http's StatusInternalServerError, used by the three http.Error calls.
StatusInternalServerError == 500

UserAgentName == "User-Agent"
CustomUserAgent == "MyCustomUserAgent"
AddedHeaderName == "X-Added-Header"
AddedHeaderValue == "HeaderValue"

MsgInvalidTarget == "Invalid target server URL"
MsgCreateRequest == "Failed to create request"
MsgConnect == "Failed to connect to server"
MsgCopyBody == "Failed to copy response body"
MsgReadRequestBody == "Failed to read request body"
MsgReadResponseBody == "Failed to read response body"

\* ------------------------------------------------------------ header maps

\* Header names as they may arrive on the wire, in several spellings.
WireNames == {"User-Agent", "user-agent", "X-Added-Header", "Accept"}
HeaderValues == {"a", "b"}

\* The canonical header names of the model (the keys of an http.Header).
HeaderNames ==
    {"User-Agent", "X-Added-Header", "Accept", "X-Req", "X-Foo",
     "Content-Type", "X-Content-Type-Options"}

\* net/http hands the handler r.Header keyed by canonical MIME header names:
\* the first letter and every letter after a hyphen in upper case, the rest
\* in lower case.
CanonicalHeaderKey(n) ==
    CASE n \in {"User-Agent", "user-agent", "USER-AGENT"} -> "User-Agent"
      [] n \in {"X-Added-Header", "x-added-header"} -> "X-Added-Header"
      [] n \in {"Accept", "accept"} -> "Accept"
      [] OTHER -> n

EmptyHeader == [n \in HeaderNames |-> <<>>]

\* http.Header.Add: append the value to the values of the key.
HeaderAdd(h, name, value) ==
    [h EXCEPT ![CanonicalHeaderKey(name)] = Append(@, value)]

\* http.Header.Set: replace the values of the key by the single value.
HeaderSet(h, name, value) ==
    [h EXCEPT ![CanonicalHeaderKey(name)] = <<value>>]

\* The names an http.Header holds (the keys a range over the map visits).
Keys(h) == {n \in HeaderNames : h[n] # <<>>}

\* r.Header as the server builds it from the header lines of the wire:
\* each line's value is appended under the canonical form of its name.
RECURSIVE ParseWireHeaders(_)
ParseWireHeaders(wire) ==
    IF wire = <<>> THEN EmptyHeader
    ELSE HeaderAdd(ParseWireHeaders(SubSeq(wire, 1, Len(wire) - 1)),
                   wire[Len(wire)][1], wire[Len(wire)][2])

\* The orders in which a range over a Go map may visit the keys: any.
Orders(S) == {o \in [1..Cardinality(S) -> S] : \A a, b \in DOMAIN o : o[a] = o[b] => a = b}

\* --------------------------------------------------------------- streams

\* A body is a single-pass stream: data is what it delivers before it ends,
\* pos the bytes consumed so far, err whether it ends in a read error
\* instead of EOF.
Stream(bytes, err) == [data |-> bytes, pos |-> 0, err |-> err]

\* io.NopCloser(bytes.NewBuffer(body)): a fresh stream over the bytes read.
NopCloserBufferMutConsumed(body) == [data |-> body, pos |-> Len(body), err |-> FALSE]
NopCloserBuffer(body) == Stream(body, FALSE)

\* ioutil.ReadAll: everything from the current position on, the error the
\* stream ends with, and the stream left fully consumed.
ReadAll(s) ==
    [bytes |-> SubSeq(s.data, s.pos + 1, Len(s.data)),
     err |-> s.err,
     rest |-> [s EXCEPT !.pos = Len(s.data)]]

\* ------------------------------------------------------------------ URLs

ValidTarget == "http://api.example.com/base"
BadTarget == "1.2.3.4:80"
Targets == {ValidTarget, BadTarget}

\* url.Parse of the configured target server: "1.2.3.4:80" is rejected
\* (first path segment in URL cannot contain colon).
UrlParse(s) ==
    CASE s = ValidTarget ->
           [ok |-> TRUE, scheme |-> "http", host |-> "api.example.com", path |-> "/base"]
      [] OTHER ->
           [ok |-> FALSE, scheme |-> "", host |-> "", path |-> ""]

\* target.ResolveReference(r.URL): r.URL holds an absolute path and a query
\* only, so the target's scheme and host are kept and its path is replaced.
ResolveReference(target, ref) ==
    [scheme |-> target.scheme, host |-> target.host,
     path |-> ref.path, query |-> ref.query]

\* --------------------------------------------------------------- scenarios

\* What one connection brings and what its environment does: the request
\* on the wire and the outcomes of the calls the handler makes.
\*   target          the configured target server (the same for the whole run)
\*   reqErr/reqGot   reading the request body fails after reqGot bytes
\*   newRequestErr   http.NewRequest returns an error
\*   doErr           client.Do returns an error
\*   resp*           the upstream's response when client.Do succeeds
\*   respErr/respGot reading the response body fails after respGot bytes
\*   writeErr/writeGot writing the body to the client fails after writeGot bytes
Default ==
    [method |-> "GET",
     url |-> [path |-> "/v1/items", query |-> "x=1"],
     wire |-> << <<"Accept", "a">> >>,
     body |-> <<"h", "i">>,
     reqErr |-> FALSE, reqGot |-> 0,
     target |-> ValidTarget,
     newRequestErr |-> FALSE,
     doErr |-> FALSE,
     respStatus |-> 201,
     respHeader |-> [EmptyHeader EXCEPT !["X-Foo"] = <<"a", "b">>],
     respBody |-> <<"h", "i">>,
     respErr |-> FALSE, respGot |-> 0,
     writeErr |-> FALSE, writeGot |-> 0]

SeqsUpTo(S, n) == UNION {[1..k -> S] : k \in 0..n}

Bodies == SeqsUpTo({"h", "i"}, MaxBody)

\* Requests that differ in their header lines.
HdrScenarios ==
    {[Default EXCEPT !.wire = ws] : ws \in SeqsUpTo(WireNames \X HeaderValues, MaxHdrs)}

\* Requests that differ in their body and in whether reading it fails.
BodyScenarios ==
    {[Default EXCEPT !.body = b, !.reqErr = e[1], !.reqGot = e[2], !.doErr = d] :
        b \in Bodies, e \in {<<FALSE, 0>>} \cup ({TRUE} \X (0..MaxBody)), d \in BOOLEAN}

\* Configurations and environments in which a call of the handler fails.
ErrScenarios ==
    {[Default EXCEPT !.target = t, !.newRequestErr = n, !.doErr = d] :
        t \in Targets, n \in BOOLEAN, d \in BOOLEAN}

RespHeaders ==
    {EmptyHeader,
     [EmptyHeader EXCEPT !["X-Foo"] = <<"a", "b">>],
     [EmptyHeader EXCEPT !["X-Foo"] = <<"b", "b">>, !["Content-Type"] = <<"a">>]}

\* Upstream responses, and failures while reading or relaying them.
RespScenarios ==
    {[Default EXCEPT !.respStatus = st, !.respHeader = h, !.respBody = b,
                     !.respErr = re[1], !.respGot = re[2],
                     !.writeErr = we[1], !.writeGot = we[2]] :
        st \in {200, 201, 404}, h \in RespHeaders, b \in Bodies,
        re \in {<<FALSE, 0>>} \cup ({TRUE} \X (0..MaxBody)),
        we \in {<<FALSE, 0>>} \cup ({TRUE} \X (0..MaxBody))}

Scenarios ==
    {s \in HdrScenarios \cup BodyScenarios \cup ErrScenarios \cup RespScenarios :
        /\ s.reqGot <= Len(s.body)
        /\ s.respGot <= Len(s.respBody)
        /\ s.writeGot <= Len(s.respBody)}

\* The request of connection i in a concurrent run: path, header value and
\* bodies are its own, so that data of another request is recognisable.
ConcScenario(i, d) ==
    [Default EXCEPT !.url = [path |-> "/r" \o ToString(i), query |-> ""],
                    !.wire = << <<"X-Req", ToString(i)>> >>,
                    !.body = <<ToString(i)>>,
                    !.doErr = d,
                    !.respHeader = [EmptyHeader EXCEPT !["X-Foo"] = <<ToString(i)>>],
                    !.respBody = <<"re", ToString(i)>>]

\* ------------------------------------------------------------------ state

VARIABLES
    plan,         \* plan[i]: the scenario of connection i (never changes)
    pc,           \* pc[i]: where the handler of connection i stands
    r,            \* r[i]: the *http.Request: method, url, header, body
    iter,         \* iter[i]: the range over a header map in progress
    proxyReq,     \* proxyReq[i]: the outbound request
    attempts,     \* attempts[i]: calls of client.Do made
    upstream,     \* upstream[i]: what the upstream received, once dispatched
    resp,         \* resp[i]: the *http.Response
    w,            \* w[i]: the http.ResponseWriter: header, status, body
    requestLog,   \* lines written through requestLogger
    responseLog,  \* lines written through responseLogger
    errorLog      \* lines written through errorLogger

vars == <<plan, pc, r, iter, proxyReq, attempts, upstream, resp, w,
          requestLog, responseLog, errorLog>>

NoStream == Stream(<<>>, FALSE)
NoIter == [left |-> {}, name |-> "", k |-> 0]
NoRequest == [built |-> FALSE, method |-> "", url |-> <<>>, header |-> EmptyHeader, body |-> NoStream]
NoUpstream == [got |-> FALSE, method |-> "", url |-> <<>>, header |-> EmptyHeader, body |-> <<>>]
NoResponse == [status |-> 0, header |-> EmptyHeader, body |-> NoStream]
NoWriter == [header |-> EmptyHeader, status |-> <<>>, body |-> <<>>]

\* The request as the server hands it to the handler.
Inbound(s) ==
    [method |-> s.method, url |-> s.url,
     header |-> ParseWireHeaders(s.wire),
     body |-> IF s.reqErr THEN Stream(SubSeq(s.body, 1, s.reqGot), TRUE)
              ELSE Stream(s.body, FALSE)]

InitWith(scn, accepted) ==
    /\ plan = scn
    /\ pc = [i \in Reqs |-> IF i \in accepted THEN "accepted" ELSE "absent"]
    /\ r = [i \in Reqs |-> Inbound(scn[i])]
    /\ iter = [i \in Reqs |-> NoIter]
    /\ proxyReq = [i \in Reqs |-> NoRequest]
    /\ attempts = [i \in Reqs |-> 0]
    /\ upstream = [i \in Reqs |-> NoUpstream]
    /\ resp = [i \in Reqs |-> NoResponse]
    /\ w = [i \in Reqs |-> NoWriter]
    /\ requestLog = <<>>
    /\ responseLog = <<>>
    /\ errorLog = <<>>

\* One connection, any scenario.
Init ==
    \E s \in Scenarios : InitWith([i \in Reqs |-> s], {1})

\* Two of the NumReq connections at once, each with a request of its own.
InitConc ==
    \E pair \in {p \in SUBSET Reqs : Cardinality(p) = 2} :
      \E d \in [Reqs -> BOOLEAN] :
        /\ \A i \in Reqs \ pair : ~d[i]
        /\ InitWith([i \in Reqs |-> ConcScenario(i, d[i])], pair)

\* A line of a log: by is the handler that wrote it (not part of the line),
\* kind and data are its text.
Line(i, kind, data) == [by |-> i, kind |-> kind, data |-> data]

\* ------------------------------------------------------- ranging over a map

\* The range over header map h has lines left to visit.
MoreHeaders(it, h) ==
    \/ it.left # {}
    \/ it.name # "" /\ it.k <= Len(h[it.name])

\* One iteration of "for name, values := range h { for _, value := range
\* values": the next value of the current name, or the first value of a
\* name not yet visited.  The result is the set of <<iterator, name, value>>.
NextHeader(it, h) ==
    IF it.name # "" /\ it.k <= Len(h[it.name])
    THEN {<<[it EXCEPT !.k = @ + 1], it.name, h[it.name][it.k]>>}
    ELSE {<<[left |-> it.left \ {n}, name |-> n, k |-> 2], n, h[n][1]>> : n \in it.left}

\* ------------------------------------------------------------- the handler

\* The header transformation of one inbound value: a User-Agent value is
\* replaced by the fixed one (Set), every other value is appended (Add).
CopyValueMutSet(out, name, value) == HeaderSet(out, name, value)
CopyValue(out, name, value) ==
    IF name = UserAgentName
    THEN HeaderSet(out, name, CustomUserAgent)
    ELSE HeaderAdd(out, name, value)

\* The inner loop: the values of one name, in order.
RECURSIVE CopyValues(_, _, _)
CopyValues(out, name, values) ==
    IF values = <<>> THEN out
    ELSE CopyValue(CopyValues(out, name, SubSeq(values, 1, Len(values) - 1)),
                   name, values[Len(values)])

\* The outer loop: the names of h, in the order the range visits them.
RECURSIVE CopyHeaders(_, _, _)
CopyHeaders(out, h, order) ==
    IF order = <<>> THEN out
    ELSE CopyValues(CopyHeaders(out, h, SubSeq(order, 1, Len(order) - 1)),
                    order[Len(order)], h[order[Len(order)]])

\* proxyReq.Header.Set("X-Added-Header", "HeaderValue")
AddHeaderMutAdd(h) == HeaderAdd(h, AddedHeaderName, AddedHeaderValue)
AddHeader(h) == HeaderSet(h, AddedHeaderName, AddedHeaderValue)

\* A relay loop that sets instead of adding: the last value of a name wins.
RelayValuesMutSet(out, name, values) ==
    IF values = <<>> THEN out ELSE HeaderSet(out, name, values[Len(values)])

\* The relay loop: every value of every name of the response is appended.
RECURSIVE RelayValues(_, _, _)
RelayValues(out, name, values) ==
    IF values = <<>> THEN out
    ELSE HeaderAdd(RelayValues(out, name, SubSeq(values, 1, Len(values) - 1)),
                   name, values[Len(values)])

RECURSIVE RelayHeaders(_, _, _)
RelayHeaders(out, h, order) ==
    IF order = <<>> THEN out
    ELSE RelayValues(RelayHeaders(out, h, SubSeq(order, 1, Len(order) - 1)),
                     order[Len(order)], h[order[Len(order)]])

\* A reply that writes the message without the status code.
HttpErrorMutNoStatus(wr, msg, code) ==
    [wr EXCEPT !.body = @ \o <<msg, "\n">>]

\* http.Error(w, msg, code): a plain-text reply, the status code, the
\* message and a line break.
HttpError(wr, msg, code) ==
    [header |-> HeaderSet(HeaderSet(wr.header, "Content-Type", "text/plain; charset=utf-8"),
                          "X-Content-Type-Options", "nosniff"),
     status |-> Append(wr.status, code),
     body |-> wr.body \o <<msg, "\n">>]

\* logRequest, first call of the logger: method and URL.
LogRequestLine(i) ==
    /\ pc[i] = "accepted"
    /\ requestLog' = Append(requestLog, Line(i, "Request", <<r[i].method, r[i].url>>))
    /\ iter' = [iter EXCEPT ![i] = [left |-> Keys(r[i].header), name |-> "", k |-> 0]]
    /\ pc' = [pc EXCEPT ![i] = "reqHeaders"]
    /\ UNCHANGED <<plan, r, proxyReq, attempts, upstream, resp, w, responseLog, errorLog>>

\* logRequest, one iteration of the header loop: one line per value.
LogRequestHeader(i) ==
    /\ pc[i] = "reqHeaders"
    /\ MoreHeaders(iter[i], r[i].header)
    /\ \E t \in NextHeader(iter[i], r[i].header) :
         /\ iter' = [iter EXCEPT ![i] = t[1]]
         /\ requestLog' = Append(requestLog, Line(i, "Request Header", <<t[2], t[3]>>))
    /\ UNCHANGED <<plan, pc, r, proxyReq, attempts, upstream, resp, w, responseLog, errorLog>>

\* A logRequest that keeps the buffer it read in a variable shared by all
\* handlers, so that every request's body becomes the one read last.
LogRequestBodyMutShared(i) ==
    /\ pc[i] = "reqHeaders"
    /\ ~MoreHeaders(iter[i], r[i].header)
    /\ LET ra == ReadAll(r[i].body) IN
         /\ r' = [j \in Reqs |-> [r[j] EXCEPT !.body = NopCloserBuffer(ra.bytes)]]
         /\ requestLog' = Append(requestLog, Line(i, "Request Body", ra.bytes))
    /\ iter' = [iter EXCEPT ![i] = NoIter]
    /\ pc' = [pc EXCEPT ![i] = "parse"]
    /\ UNCHANGED <<plan, proxyReq, attempts, upstream, resp, w, responseLog, errorLog>>

\* logRequest, the body: read all of it; on an error log the failure and
\* return; otherwise replace r.Body by a fresh buffer and log the bytes.
LogRequestBody(i) ==
    /\ pc[i] = "reqHeaders"
    /\ ~MoreHeaders(iter[i], r[i].header)
    /\ LET ra == ReadAll(r[i].body) IN
         IF ra.err
         THEN /\ requestLog' = Append(requestLog, Line(i, MsgReadRequestBody, <<>>))
              /\ r' = [r EXCEPT ![i].body = ra.rest]
         ELSE /\ r' = [r EXCEPT ![i].body = NopCloserBuffer(ra.bytes)]
              /\ requestLog' = Append(requestLog, Line(i, "Request Body", ra.bytes))
    /\ iter' = [iter EXCEPT ![i] = NoIter]
    /\ pc' = [pc EXCEPT ![i] = "parse"]
    /\ UNCHANGED <<plan, proxyReq, attempts, upstream, resp, w, responseLog, errorLog>>

\* A ParseTarget whose error branch lacks the return.
ParseTargetMutNoReturn(i) ==
    /\ pc[i] = "parse"
    /\ IF ~UrlParse(plan[i].target).ok
       THEN /\ w' = [w EXCEPT ![i] = HttpError(@, MsgInvalidTarget, StatusInternalServerError)]
            /\ errorLog' = Append(errorLog, Line(i, MsgInvalidTarget, <<>>))
       ELSE UNCHANGED <<w, errorLog>>
    /\ pc' = [pc EXCEPT ![i] = "build"]
    /\ UNCHANGED <<plan, r, iter, proxyReq, attempts, upstream, resp, requestLog, responseLog>>

\* url.Parse(targetServer); on an error reply 500, log it and return.
ParseTarget(i) ==
    /\ pc[i] = "parse"
    /\ IF ~UrlParse(plan[i].target).ok
       THEN /\ w' = [w EXCEPT ![i] = HttpError(@, MsgInvalidTarget, StatusInternalServerError)]
            /\ errorLog' = Append(errorLog, Line(i, MsgInvalidTarget, <<>>))
            /\ pc' = [pc EXCEPT ![i] = "done"]
       ELSE /\ pc' = [pc EXCEPT ![i] = "build"]
            /\ UNCHANGED <<w, errorLog>>
    /\ UNCHANGED <<plan, r, iter, proxyReq, attempts, upstream, resp, requestLog, responseLog>>

\* ResolveReference, http.NewRequest (on an error reply 500, log it and
\* return), the header loop and the added header.
BuildRequest(i) ==
    /\ pc[i] = "build"
    /\ IF plan[i].newRequestErr
       THEN /\ w' = [w EXCEPT ![i] = HttpError(@, MsgCreateRequest, StatusInternalServerError)]
            /\ errorLog' = Append(errorLog, Line(i, MsgCreateRequest, <<>>))
            /\ pc' = [pc EXCEPT ![i] = "done"]
            /\ UNCHANGED proxyReq
       ELSE /\ \E order \in Orders(Keys(r[i].header)) :
                 proxyReq' = [proxyReq EXCEPT ![i] =
                     [built |-> TRUE,
                      method |-> r[i].method,
                      url |-> ResolveReference(UrlParse(plan[i].target), r[i].url),
                      header |-> AddHeader(CopyHeaders(EmptyHeader, r[i].header, order)),
                      body |-> r[i].body]]
            /\ pc' = [pc EXCEPT ![i] = "dispatch"]
            /\ UNCHANGED <<w, errorLog>>
    /\ UNCHANGED <<plan, r, iter, attempts, upstream, resp, requestLog, responseLog>>

\* A Dispatch that tries the upstream a second time when the first call fails.
DispatchMutRetry(i) ==
    /\ pc[i] = "dispatch"
    /\ IF plan[i].doErr
       THEN /\ attempts' = [attempts EXCEPT ![i] = @ + 2]
            /\ w' = [w EXCEPT ![i] = HttpError(@, MsgConnect, StatusInternalServerError)]
            /\ errorLog' = Append(errorLog, Line(i, MsgConnect, <<>>))
            /\ pc' = [pc EXCEPT ![i] = "done"]
            /\ UNCHANGED <<proxyReq, upstream, resp>>
       ELSE /\ attempts' = [attempts EXCEPT ![i] = @ + 1]
            /\ LET sent == ReadAll(proxyReq[i].body) IN
                 /\ upstream' = [upstream EXCEPT ![i] =
                       [got |-> TRUE, method |-> proxyReq[i].method, url |-> proxyReq[i].url,
                        header |-> proxyReq[i].header, body |-> sent.bytes]]
                 /\ proxyReq' = [proxyReq EXCEPT ![i].body = sent.rest]
            /\ resp' = [resp EXCEPT ![i] =
                  [status |-> plan[i].respStatus,
                   header |-> plan[i].respHeader,
                   body |-> IF plan[i].respErr
                            THEN Stream(SubSeq(plan[i].respBody, 1, plan[i].respGot), TRUE)
                            ELSE Stream(plan[i].respBody, FALSE)]]
            /\ pc' = [pc EXCEPT ![i] = "respLine"]
            /\ UNCHANGED <<w, errorLog>>
    /\ UNCHANGED <<plan, r, iter, requestLog, responseLog>>

\* client.Do(proxyReq): on an error reply 500, log it and return; otherwise
\* the upstream has read the request and resp is its response.
Dispatch(i) ==
    /\ pc[i] = "dispatch"
    /\ attempts' = [attempts EXCEPT ![i] = @ + 1]
    /\ IF plan[i].doErr
       THEN /\ w' = [w EXCEPT ![i] = HttpError(@, MsgConnect, StatusInternalServerError)]
            /\ errorLog' = Append(errorLog, Line(i, MsgConnect, <<>>))
            /\ pc' = [pc EXCEPT ![i] = "done"]
            /\ UNCHANGED <<proxyReq, upstream, resp>>
       ELSE /\ LET sent == ReadAll(proxyReq[i].body) IN
                 /\ upstream' = [upstream EXCEPT ![i] =
                       [got |-> TRUE, method |-> proxyReq[i].method, url |-> proxyReq[i].url,
                        header |-> proxyReq[i].header, body |-> sent.bytes]]
                 /\ proxyReq' = [proxyReq EXCEPT ![i].body = sent.rest]
            /\ resp' = [resp EXCEPT ![i] =
                  [status |-> plan[i].respStatus,
                   header |-> plan[i].respHeader,
                   body |-> IF plan[i].respErr
                            THEN Stream(SubSeq(plan[i].respBody, 1, plan[i].respGot), TRUE)
                            ELSE Stream(plan[i].respBody, FALSE)]]
            /\ pc' = [pc EXCEPT ![i] = "respLine"]
            /\ UNCHANGED <<w, errorLog>>
    /\ UNCHANGED <<plan, r, iter, requestLog, responseLog>>

\* logResponse, first call of the logger: the status.
LogResponseLine(i) ==
    /\ pc[i] = "respLine"
    /\ responseLog' = Append(responseLog, Line(i, "Response", <<resp[i].status>>))
    /\ iter' = [iter EXCEPT ![i] = [left |-> Keys(resp[i].header), name |-> "", k |-> 0]]
    /\ pc' = [pc EXCEPT ![i] = "respHeaders"]
    /\ UNCHANGED <<plan, r, proxyReq, attempts, upstream, resp, w, requestLog, errorLog>>

\* logResponse, one iteration of the header loop.
LogResponseHeader(i) ==
    /\ pc[i] = "respHeaders"
    /\ MoreHeaders(iter[i], resp[i].header)
    /\ \E t \in NextHeader(iter[i], resp[i].header) :
         /\ iter' = [iter EXCEPT ![i] = t[1]]
         /\ responseLog' = Append(responseLog, Line(i, "Response Header", <<t[2], t[3]>>))
    /\ UNCHANGED <<plan, pc, r, proxyReq, attempts, upstream, resp, w, requestLog, errorLog>>

\* logResponse, the body: as logRequest does for the request.
LogResponseBody(i) ==
    /\ pc[i] = "respHeaders"
    /\ ~MoreHeaders(iter[i], resp[i].header)
    /\ LET ra == ReadAll(resp[i].body) IN
         IF ra.err
         THEN /\ responseLog' = Append(responseLog, Line(i, MsgReadResponseBody, <<>>))
              /\ resp' = [resp EXCEPT ![i].body = ra.rest]
         ELSE /\ resp' = [resp EXCEPT ![i].body = NopCloserBuffer(ra.bytes)]
              /\ responseLog' = Append(responseLog, Line(i, "Response Body", ra.bytes))
    /\ iter' = [iter EXCEPT ![i] = NoIter]
    /\ pc' = [pc EXCEPT ![i] = "copyHeaders"]
    /\ UNCHANGED <<plan, r, proxyReq, attempts, upstream, w, requestLog, errorLog>>

\* The loop that adds every response header value to w.Header().
CopyResponseHeaders(i) ==
    /\ pc[i] = "copyHeaders"
    /\ \E order \in Orders(Keys(resp[i].header)) :
         w' = [w EXCEPT ![i].header = RelayHeaders(@, resp[i].header, order)]
    /\ pc' = [pc EXCEPT ![i] = "writeStatus"]
    /\ UNCHANGED <<plan, r, iter, proxyReq, attempts, upstream, resp,
                   requestLog, responseLog, errorLog>>

\* w.WriteHeader(resp.StatusCode)
WriteStatus(i) ==
    /\ pc[i] = "writeStatus"
    /\ w' = [w EXCEPT ![i].status = Append(@, resp[i].status)]
    /\ pc' = [pc EXCEPT ![i] = "copyBody"]
    /\ UNCHANGED <<plan, r, iter, proxyReq, attempts, upstream, resp,
                   requestLog, responseLog, errorLog>>

\* io.Copy(w, resp.Body): what can be read is written to the client until
\* the read or the write fails; a failure is logged.
CopyBody(i) ==
    /\ pc[i] = "copyBody"
    /\ LET rd == ReadAll(resp[i].body)
           wfail == plan[i].writeErr /\ plan[i].writeGot < Len(rd.bytes)
           written == IF wfail THEN SubSeq(rd.bytes, 1, plan[i].writeGot) ELSE rd.bytes
       IN /\ w' = [w EXCEPT ![i].body = @ \o written]
          /\ resp' = [resp EXCEPT ![i].body = rd.rest]
          /\ errorLog' = IF rd.err \/ wfail
                         THEN Append(errorLog, Line(i, MsgCopyBody, <<>>))
                         ELSE errorLog
    /\ pc' = [pc EXCEPT ![i] = "done"]
    /\ UNCHANGED <<plan, r, iter, proxyReq, attempts, upstream, requestLog, responseLog>>

\* redirectHandler for connection i: whichever step is next.
Handle(i) ==
    \/ LogRequestLine(i)
    \/ LogRequestHeader(i)
    \/ LogRequestBody(i)
    \/ ParseTarget(i)
    \/ BuildRequest(i)
    \/ Dispatch(i)
    \/ LogResponseLine(i)
    \/ LogResponseHeader(i)
    \/ LogResponseBody(i)
    \/ CopyResponseHeaders(i)
    \/ WriteStatus(i)
    \/ CopyBody(i)

Next == \E i \in Reqs : Handle(i)

\* One connection, any scenario.
Spec == Init /\ [][Next]_vars

\* Two connections handled concurrently.
SpecConc == InitConc /\ [][Next]_vars

\* ------------------------------------------------------------ properties

Elems(q) == {q[k] : k \in DOMAIN q}
LinesBy(log, i) == SelectSeq(log, LAMBDA l : l.by = i)
KindsBy(log, i) == {log[k].kind : k \in {k \in DOMAIN log : log[k].by = i}}
IsPrefix(a, b) == Len(a) <= Len(b) /\ a = SubSeq(b, 1, Len(a))

\* The values the wire carries under a header name, whatever its spelling,
\* in the order of the header lines.
RECURSIVE WireValues(_, _)
WireValues(wire, n) ==
    IF wire = <<>> THEN <<>>
    ELSE IF CanonicalHeaderKey(Head(wire)[1]) = n
         THEN <<Head(wire)[2]>> \o WireValues(Tail(wire), n)
         ELSE WireValues(Tail(wire), n)

\* logRequest (logResponse) of connection i has returned.
RequestLogged(i) == pc[i] \notin {"absent", "accepted", "reqHeaders"}
ResponseLogged(i) == pc[i] \in {"copyHeaders", "writeStatus", "copyBody"}
                     \/ (pc[i] = "done" /\ upstream[i].got)
\* client.Do of connection i returned an error.
DispatchFailed(i) == attempts[i] > 0 /\ ~upstream[i].got

\* C1: the outbound request of every inbound request, whatever the number
\* of its User-Agent values (none, one or many, in any spelling of the
\* name), has exactly one User-Agent value, the fixed "MyCustomUserAgent".
C1_UserAgentAlwaysFixed ==
    \A i \in Reqs :
        proxyReq[i].built => proxyReq[i].header[UserAgentName] = <<CustomUserAgent>>

\* C2: once the header transformation has run, the outbound request holds
\* X-Added-Header exactly once, with the value "HeaderValue", whatever the
\* inbound request supplied under that name; the upstream receives it so.
C2_AddedHeaderOnce ==
    \A i \in Reqs :
        /\ proxyReq[i].built => proxyReq[i].header[AddedHeaderName] = <<AddedHeaderValue>>
        /\ upstream[i].got => upstream[i].header[AddedHeaderName] = <<AddedHeaderValue>>

\* A request that brought two X-Added-Header values has reached the upstream.
C2_Witness ==
    /\ upstream[1].got
    /\ Len(WireValues(plan[1].wire, AddedHeaderName)) = 2

\* C3: when the read of the request body succeeds, then after logRequest
\* the body is an unconsumed stream of exactly the bytes the client sent,
\* it is still so when it is handed to client.Do, and the upstream receives
\* those bytes.
C3_RequestBodyPreserved ==
    \A i \in Reqs :
        ~plan[i].reqErr =>
            /\ (RequestLogged(i) /\ pc[i] \in {"parse", "build"})
                    => r[i].body = [data |-> plan[i].body, pos |-> 0, err |-> FALSE]
            /\ pc[i] = "dispatch"
                    => proxyReq[i].body = [data |-> plan[i].body, pos |-> 0, err |-> FALSE]
            /\ upstream[i].got => upstream[i].body = plan[i].body

\* A two-byte body was logged and then received by the upstream.
C3_Witness ==
    /\ upstream[1].got
    /\ ~plan[1].reqErr
    /\ plan[1].body = <<"i", "h">>
    /\ \E k \in DOMAIN requestLog :
         requestLog[k].kind = "Request Body" /\ requestLog[k].data = <<"i", "h">>

\* The relay of connection i met a failed read of the response body or a
\* failed write to the client.
RelayFailure(i) ==
    \/ plan[i].respErr
    \/ plan[i].writeErr /\ plan[i].writeGot < Len(plan[i].respBody)

RelayedStatusAndHeaders(i) ==
    /\ w[i].status = <<plan[i].respStatus>>
    /\ \A n \in HeaderNames : w[i].header[n] = plan[i].respHeader[n]

\* C4 as stated: whenever client.Do succeeds, the client gets the upstream's
\* status, every header value in order, and a body identical to the
\* upstream's body.
C4_Original ==
    \A i \in Reqs :
        (pc[i] = "done" /\ upstream[i].got) =>
            /\ RelayedStatusAndHeaders(i)
            /\ w[i].body = plan[i].respBody

\* C4 amended: whenever client.Do succeeds, the client gets the upstream's
\* status and every header value in order; the body is identical to the
\* upstream's body unless a read of the response body or the write to the
\* client fails, and then the client gets a prefix of it (nothing when the
\* read in logResponse failed) and the failure of the copy is logged.
C4_Passthrough ==
    \A i \in Reqs :
        (pc[i] = "done" /\ upstream[i].got) =>
            /\ RelayedStatusAndHeaders(i)
            /\ ~RelayFailure(i) => w[i].body = plan[i].respBody
            /\ RelayFailure(i) =>
                 /\ IsPrefix(w[i].body, plan[i].respBody)
                 /\ plan[i].respErr => w[i].body = <<>>
                 /\ MsgCopyBody \in KindsBy(errorLog, i)

\* A 201 response with two X-Foo values and a two-byte body was logged and
\* relayed.
C4_Witness ==
    /\ pc[1] = "done" /\ upstream[1].got
    /\ plan[1].respStatus = 201
    /\ plan[1].respHeader["X-Foo"] = <<"a", "b">>
    /\ w[1].body = <<"h", "i">>
    /\ \E k \in DOMAIN responseLog :
         responseLog[k].kind = "Response Body" /\ responseLog[k].data = <<"h", "i">>

\* C5: when client.Do fails, the client gets status 500 and a body holding
\* "Failed to connect to server", the error log gets exactly one line of
\* that request, the upstream was tried once, the response log gets no line
\* of it, and every other connection goes on: its next step stays enabled,
\* and when it is done with an upstream response, that response is relayed.
C5_UpstreamFailure ==
    \A i \in Reqs :
        DispatchFailed(i) =>
            /\ pc[i] = "done"
            /\ w[i].status = <<StatusInternalServerError>>
            /\ MsgConnect \in Elems(w[i].body)
            /\ Len(LinesBy(errorLog, i)) = 1
            /\ LinesBy(errorLog, i)[1].kind = MsgConnect
            /\ attempts[i] = 1
            /\ LinesBy(responseLog, i) = <<>>
            /\ \A j \in Reqs \ {i} :
                 /\ pc[j] \notin {"absent", "done"} => ENABLED Handle(j)
                 /\ (pc[j] = "done" /\ upstream[j].got) =>
                        /\ w[j].status = <<plan[j].respStatus>>
                        /\ w[j].body = plan[j].respBody

\* A connection was served in full beside one that failed at client.Do,
\* and was the last of the two to finish logging its request.
C5_Witness ==
    \E i, j \in Reqs :
        /\ DispatchFailed(i)
        /\ pc[j] = "done" /\ upstream[j].got
        /\ requestLog[Len(requestLog)].by = j
        /\ w[j].status = <<201>>

\* C6: when url.Parse of the target fails the client gets status 500 and
\* "Invalid target server URL", when http.NewRequest fails it gets status 500
\* and "Failed to create request"; either way the error is logged on the
\* error channel and the request ends there: no outbound request is sent,
\* no response is logged, nothing else is written to the client.
C6_PreDispatchFatal ==
    \A i \in Reqs :
        LET badTarget == ~UrlParse(plan[i].target).ok
            badBuild == ~badTarget /\ plan[i].newRequestErr
            msg == IF badTarget THEN MsgInvalidTarget ELSE MsgCreateRequest
        IN (badTarget \/ badBuild) =>
            /\ pc[i] \in {"absent", "accepted", "reqHeaders", "parse", "done"}
                    \/ (badBuild /\ pc[i] = "build")
            /\ attempts[i] = 0
            /\ ~upstream[i].got
            /\ ~proxyReq[i].built
            /\ LinesBy(responseLog, i) = <<>>
            /\ pc[i] = "done" =>
                 /\ w[i].status = <<StatusInternalServerError>>
                 /\ w[i].body = <<msg, "\n">>
                 /\ LinesBy(errorLog, i) = <<Line(i, msg, <<>>)>>
            /\ pc[i] # "done" => w[i] = NoWriter /\ LinesBy(errorLog, i) = <<>>

\* A request ended at the failed parse of the target.
C6_Witness ==
    /\ pc[1] = "done"
    /\ plan[1].target = BadTarget
    /\ w[1].body = <<MsgInvalidTarget, "\n">>

\* C7: when the read of a body fails in logRequest or logResponse, the
\* failure is logged on the error channel, the body line is skipped and the
\* handler goes on to the next step.
C7_ReadFailureOnErrorChannel ==
    \A i \in Reqs :
        /\ (RequestLogged(i) /\ plan[i].reqErr) =>
             /\ MsgReadRequestBody \in KindsBy(errorLog, i)
             /\ "Request Body" \notin KindsBy(requestLog, i)
             /\ pc[i] = "parse" => ENABLED ParseTarget(i)
        /\ (ResponseLogged(i) /\ plan[i].respErr) =>
             /\ MsgReadResponseBody \in KindsBy(errorLog, i)
             /\ "Response Body" \notin KindsBy(responseLog, i)
             /\ pc[i] = "copyHeaders" => ENABLED CopyResponseHeaders(i)

\* The tokens that only the requests and responses of other connections hold.
ForeignTokens(i) ==
    UNION {{ToString(j), "/r" \o ToString(j)} : j \in Reqs \ {i}}

HeaderTokens(h) == UNION {Elems(h[n]) : n \in HeaderNames}

\* Nothing of another connection is in what connection i sends upstream or
\* relays to its client.
Isolated(i) ==
    /\ HeaderTokens(proxyReq[i].header) \cap ForeignTokens(i) = {}
    /\ Elems(r[i].body.data) \cap ForeignTokens(i) = {}
    /\ upstream[i].got =>
         /\ upstream[i].url.path = plan[i].url.path
         /\ upstream[i].header["X-Req"] = <<ToString(i)>>
         /\ upstream[i].body = plan[i].body
    /\ HeaderTokens(w[i].header) \cap ForeignTokens(i) = {}
    /\ Elems(w[i].body) \cap ForeignTokens(i) = {}
    /\ (pc[i] = "done" /\ upstream[i].got) =>
         /\ w[i].header["X-Foo"] = plan[i].respHeader["X-Foo"]
         /\ w[i].body = plan[i].respBody

\* The text of a log line is of the request of the handler that wrote it.
OwnLine(l) ==
    CASE l.kind = "Request" -> l.data = <<plan[l.by].method, plan[l.by].url>>
      [] l.kind = "Request Header" -> l.data = <<"X-Req", ToString(l.by)>>
      [] l.kind = "Request Body" -> l.data = plan[l.by].body
      [] l.kind = "Response" -> l.data = <<plan[l.by].respStatus>>
      [] l.kind = "Response Header" -> l.data = <<"X-Foo", ToString(l.by)>>
      [] l.kind = "Response Body" -> l.data = plan[l.by].respBody
      [] OTHER -> TRUE

\* The request a reader of a log attributes line k to: the one whose
\* method and URL the latest "Request" line up to k shows (0: none).
AttributedTo(log, k) ==
    LET heads == {h \in 1..k : log[h].kind = "Request"}
        last == CHOOSE h \in heads : \A g \in heads : g <= h
    IN IF heads = {} THEN 0
       ELSE CHOOSE i \in Reqs : log[last].data = <<plan[i].method, plan[i].url>>

\* C8 as stated: with two requests in flight, neither gets data of the
\* other, and every line of the request and response logs is attributable
\* to its request through that request's method and URL line.
C8_Original ==
    /\ \A i \in Reqs : Isolated(i)
    /\ \A k \in DOMAIN requestLog : AttributedTo(requestLog, k) = requestLog[k].by
    /\ \A k \in DOMAIN responseLog : AttributedTo(responseLog, k) = responseLog[k].by

\* C8 amended: with two requests in flight, neither request's outbound
\* headers, forwarded body or relayed response holds data of the other, and
\* every line of the request and response logs holds the data of the
\* request whose handler wrote it; the lines of the two requests may
\* interleave and carry no mark of their request.
C8_Isolation ==
    /\ \A i \in Reqs : Isolated(i)
    /\ \A k \in DOMAIN requestLog : OwnLine(requestLog[k])
    /\ \A k \in DOMAIN responseLog : OwnLine(responseLog[k])

\* Both requests were served while their log lines interleaved.
C8_Witness ==
    \E i, j \in Reqs :
        /\ i # j
        /\ pc[i] = "done" /\ upstream[i].got
        /\ pc[j] = "done" /\ upstream[j].got
        /\ Len(requestLog) >= 3
        /\ requestLog[1].by = i /\ requestLog[2].by = j /\ requestLog[3].by = i
        /\ responseLog[1].by = j /\ responseLog[2].by = i

\* C9: every inbound header other than User-Agent and X-Added-Header is on
\* the outbound request with exactly the inbound values, in the inbound
\* order, duplicates kept.
C9_OtherHeadersCopied ==
    \A i \in Reqs :
        \A n \in HeaderNames \ {UserAgentName, AddedHeaderName} :
            /\ proxyReq[i].built => proxyReq[i].header[n] = WireValues(plan[i].wire, n)
            /\ upstream[i].got => upstream[i].header[n] = WireValues(plan[i].wire, n)

\* A request with two Accept values, the larger first, reached the upstream.
C9_Witness ==
    /\ upstream[1].got
    /\ WireValues(plan[1].wire, "Accept") = <<"b", "a">>

\* The order of the steps of one handler.
StepOrder ==
    {<<"accepted", "reqHeaders">>, <<"reqHeaders", "parse">>,
     <<"parse", "build">>, <<"parse", "done">>,
     <<"build", "dispatch">>, <<"build", "done">>,
     <<"dispatch", "respLine">>, <<"dispatch", "done">>,
     <<"respLine", "respHeaders">>, <<"respHeaders", "copyHeaders">>,
     <<"copyHeaders", "writeStatus">>, <<"writeStatus", "copyBody">>,
     <<"copyBody", "done">>}

\* The steps that may end the request with an error reply.
ErrorExits == {"parse", "build", "dispatch"}

C10_Step ==
    /\ \A i \in Reqs :
         /\ pc'[i] # pc[i] => <<pc[i], pc'[i]>> \in StepOrder
         /\ attempts'[i] # attempts[i] => pc[i] = "dispatch"
         /\ proxyReq'[i].built # proxyReq[i].built => pc[i] = "build"
         /\ w'[i].header # w[i].header => pc[i] \in {"copyHeaders"} \cup ErrorExits
         /\ w'[i].status # w[i].status => pc[i] \in {"writeStatus"} \cup ErrorExits
         /\ w'[i].body # w[i].body => pc[i] \in {"copyBody"} \cup ErrorExits
    /\ requestLog' # requestLog =>
         \E i \in Reqs : /\ pc[i] \in {"accepted", "reqHeaders"}
                         /\ Len(requestLog') = Len(requestLog) + 1
                         /\ SubSeq(requestLog', 1, Len(requestLog)) = requestLog
                         /\ requestLog'[Len(requestLog')].by = i
    /\ responseLog' # responseLog =>
         \E i \in Reqs : /\ pc[i] \in {"respLine", "respHeaders"}
                         /\ Len(responseLog') = Len(responseLog) + 1
                         /\ SubSeq(responseLog', 1, Len(responseLog)) = responseLog
                         /\ responseLog'[Len(responseLog')].by = i

C10_Counts ==
    \A i \in Reqs :
        /\ attempts[i] <= 1
        /\ LinesBy(responseLog, i) # <<>> => upstream[i].got
        /\ Len(w[i].status) = IF pc[i] \in {"copyBody", "done"} THEN 1 ELSE 0

\* C10: the steps of one request occur only in the order request logging,
\* target parse, request construction with the header transformation,
\* dispatch, response logging, copy of the response headers, write of the
\* status, relay of the body; the upstream is dispatched at most once, the
\* response log gets a line only after a successful dispatch, and the
\* status code is written exactly once on every path that ends.
C10_PipelineOrder == []C10_Counts /\ [][C10_Step]_vars

\* A request went through every step of the pipeline.
C10_Witness ==
    /\ pc[1] = "done"
    /\ upstream[1].got
    /\ attempts[1] = 1
    /\ Len(LinesBy(responseLog, 1)) >= 2
    /\ w[1].status = <<plan[1].respStatus>>

====
